---- MODULE Spec2Model ----
(***************************************************************************)
(* Mindful Moments (src/app.py): a Streamlit script that classifies the    *)
(* emotion of a text, shows a themed block and a Spotify track for it, and *)
(* keeps a per-session history of detections.                              *)
(*                                                                         *)
(* Representation.                                                         *)
(*   - A Python str that the code inspects character by character (the     *)
(*     user's text, the classifier's raw label) is a sequence of           *)
(*     one-character strings: "Love" is <<"L","o","v","e">>.  A character  *)
(*     outside ASCII is written as its code point: "U+00A0".               *)
(*   - A str the code only passes around (a category, a query, a colour)   *)
(*     is a TLA+ string.                                                   *)
(*   - A dict is a function on its keys; {} is <<>>.                       *)
(*   - A float score is an integer number of hundredths (0.95 is 95).      *)
(*   - A call that may raise returns [exc |-> name, value |-> v]; exc is   *)
(*     "none" when the call returned v.                                    *)
(***************************************************************************)
EXTENDS Integers, Sequences, FiniteSets, TLC

VARIABLES
    session_state,  \* st.session_state: a dict, kept between script runs
    user_text,      \* value of the text area in the last script run
    button,         \* whether the last script run was a click on Detect
    page,           \* elements the last script run rendered, in order
    calls,          \* outbound calls the last script run made, in order
    exception,      \* exception that ended the last script run, or "none"
    classified,     \* number of calls of detect_emotion_ai that returned
    arg_text,       \* SpecNorm: the text passed to detect_emotion_ai
    arg_model,      \* SpecNorm: what emotion_model(text) does for that text
    ret             \* SpecNorm: what detect_emotion_ai returned, or Pending

vars == <<session_state, user_text, button, page, calls, exception,
          classified, arg_text, arg_model, ret>>

sessionVars == <<session_state, user_text, button, page, calls, exception,
                 classified>>

normVars == <<arg_text, arg_model, ret>>

-----------------------------------------------------------------------------
(* Bounds of the model.                                                    *)

MaxTextLen == 5     \* SpecNorm: every text over Alphabet up to this length
MaxHistory == 2     \* Spec: detections per session
MaxLongHistory == 8 \* SpecLong: detections per session

-----------------------------------------------------------------------------
(* Python builtins used by the code.                                       *)

UpperChars == <<"A","B","C","D","E","F","G","H","I","J","K","L","M",
                "N","O","P","Q","R","S","T","U","V","W","X","Y","Z">>
LowerChars == <<"a","b","c","d","e","f","g","h","i","j","k","l","m",
                "n","o","p","q","r","s","t","u","v","w","x","y","z">>

LowerOf ==
    [c \in {UpperChars[i] : i \in 1..Len(UpperChars)} |->
        LowerChars[CHOOSE i \in 1..Len(UpperChars) : UpperChars[i] = c]]

\* str.lower() on one character (ASCII letters; every other character of the
\* model's texts is left as it is, as Python leaves it).
lower_char(c) == IF c \in DOMAIN LowerOf THEN LowerOf[c] ELSE c

\* str.lower()
lower(s) == [i \in 1..Len(s) |-> lower_char(s[i])]

\* The characters str.strip() removes: every character Python counts as
\* whitespace (str.isspace).  First the ASCII ones: space, tab, line feed,
\* carriage return, form feed, then the vertical tab (0x0B) and the four
\* separators 0x1C-0x1F, written as the characters themselves; then the
\* non-ASCII ones, by code point.
Whitespace ==
    {" ", "\t", "\n", "\r", "\f", "", "", "", "", "",
     "U+0085", "U+00A0", "U+1680", "U+2000", "U+2001", "U+2002", "U+2003",
     "U+2004", "U+2005", "U+2006", "U+2007", "U+2008", "U+2009", "U+200A",
     "U+2028", "U+2029", "U+202F", "U+205F", "U+3000"}

\* str.strip(): s without its leading and trailing whitespace.
strip(s) ==
    LET keep == {i \in 1..Len(s) : s[i] \notin Whitespace}
    IN IF keep = {} THEN <<>>
       ELSE LET first == CHOOSE i \in keep : \A j \in keep : i <= j
                last == CHOOSE i \in keep : \A j \in keep : j <= i
            IN SubSeq(s, first, last)

\* `word in text` for two str.
contains(text, word) ==
    \E i \in 1..(Len(text) - Len(word) + 1) :
        SubSeq(text, i, i + Len(word) - 1) = word

\* dict.get(key, default)
get(d, key, default) == IF key \in DOMAIN d THEN d[key] ELSE default

\* list[::-1]
reversed(s) == [i \in 1..Len(s) |-> s[Len(s) + 1 - i]]

\* Mutant of last_n: list[:n], the first n elements.
first_n(s, n) == SubSeq(s, 1, IF Len(s) < n THEN Len(s) ELSE n)

\* list[-n:] for n > 0: the last n elements, or all of them when there are
\* fewer than n.
last_n(s, n) ==
    LET start == IF Len(s) - n < 0 THEN 0 ELSE Len(s) - n
    IN SubSeq(s, start + 1, Len(s))

\* str.title() on a category name: the first letter upper-cased.
title(emotion) ==
    CASE emotion = "joy" -> "Joy"
      [] emotion = "sadness" -> "Sadness"
      [] emotion = "anger" -> "Anger"
      [] emotion = "fear" -> "Fear"
      [] emotion = "love" -> "Love"
      [] emotion = "surprise" -> "Surprise"
      [] emotion = "neutral" -> "Neutral"
      [] OTHER -> emotion

Raise(e) == [exc |-> e, value |-> "no value"]
Return(v) == [exc |-> "none", value |-> v]

-----------------------------------------------------------------------------
(* detect_emotion_ai, src/app.py lines 22-47.                              *)

W_anger == <<"a","n","g","e","r">>
W_disgust == <<"d","i","s","g","u","s","t">>
W_fear == <<"f","e","a","r">>
W_joy == <<"j","o","y">>
W_neutral == <<"n","e","u","t","r","a","l">>
W_sadness == <<"s","a","d","n","e","s","s">>
W_surprise == <<"s","u","r","p","r","i","s","e">>

\* Mutant of label_map: disgust is not folded into anger.
label_map_disgust_kept ==
    (W_anger :> "anger") @@ (W_disgust :> "disgust") @@ (W_fear :> "fear") @@
    (W_joy :> "joy") @@ (W_neutral :> "neutral") @@
    (W_sadness :> "sadness") @@ (W_surprise :> "surprise")

label_map ==
    (W_anger :> "anger") @@ (W_disgust :> "anger") @@ (W_fear :> "fear") @@
    (W_joy :> "joy") @@ (W_neutral :> "neutral") @@
    (W_sadness :> "sadness") @@ (W_surprise :> "surprise")

W_love == <<"l","o","v","e">>
W_propose == <<"p","r","o","p","o","s","e">>
W_married == <<"m","a","r","r","i","e","d">>
W_engaged == <<"e","n","g","a","g","e","d">>
W_relationship == <<"r","e","l","a","t","i","o","n","s","h","i","p">>
W_crush == <<"c","r","u","s","h">>
W_girlfriend == <<"g","i","r","l","f","r","i","e","n","d">>
W_boyfriend == <<"b","o","y","f","r","i","e","n","d">>

love_words == <<W_love, W_propose, W_married, W_engaged,
                W_relationship, W_crush, W_girlfriend, W_boyfriend>>

LoveScore == 95

\* What emotion_model(text) does is an input `model`: the pipeline raises
\* (model.raises), or returns the list model.results of {"label", "score"}
\* dicts.
ModelRaises == [raises |-> TRUE, results |-> <<>>]
ModelReturns(results) == [raises |-> FALSE, results |-> results]

\* emotion_model(text)[0]
first_result(model) ==
    IF model.raises THEN Raise("ModelError")
    ELSE IF Len(model.results) = 0 THEN Raise("IndexError")
    ELSE Return(model.results[1])

\* Mutant of detect_emotion_ai: the love words are looked for in the text as
\* typed, not in its lower-cased form.
detect_emotion_ai_case_sensitive(text, model) ==
    LET result == first_result(model)
    IN IF result.exc # "none" THEN result
       ELSE LET label == lower(result.value.label)
            IN IF \E w \in 1..Len(love_words) : contains(text, love_words[w])
               THEN Return([label |-> "love", score |-> LoveScore])
               ELSE Return([label |-> get(label_map, label, "neutral"),
                            score |-> result.value.score])

\* Mutant of detect_emotion_ai: a raw label missing from the table is passed
\* on as "unknown".
detect_emotion_ai_no_fallback(text, model) ==
    LET result == first_result(model)
    IN IF result.exc # "none" THEN result
       ELSE LET label == lower(result.value.label)
                text_lower == lower(text)
            IN IF \E w \in 1..Len(love_words) :
                      contains(text_lower, love_words[w])
               THEN Return([label |-> "love", score |-> LoveScore])
               ELSE Return([label |-> get(label_map, label, "unknown"),
                            score |-> result.value.score])

detect_emotion_ai(text, model) ==
    LET result == first_result(model)
    IN IF result.exc # "none" THEN result
       ELSE LET label == lower(result.value.label)
                text_lower == lower(text)
            IN IF \E w \in 1..Len(love_words) :
                      contains(text_lower, love_words[w])
               THEN Return([label |-> "love", score |-> LoveScore])
               ELSE Return([label |-> get(label_map, label, "neutral"),
                            score |-> result.value.score])

-----------------------------------------------------------------------------
(* get_spotify_full_track, src/app.py lines 62-82.                         *)

None == "None"

SPOTIFY_QUERY_MAP ==
    [joy |-> "happy upbeat energetic songs",
     sadness |-> "sad emotional songs",
     anger |-> "calm anger management music",
     fear |-> "peaceful meditation background",
     love |-> "romantic acoustic love songs",
     surprise |-> "uplifting pop songs",
     neutral |-> "chill lofi focus music"]

DefaultQuery == "relaxing background music"

\* The query of line 73.
spotify_query(emotion) == get(SPOTIFY_QUERY_MAP, emotion, DefaultQuery)

\* What sp.search(...) does is an input `search`: it raises (search.raises;
\* a network or authorisation failure), or returns the dict search.results.
SearchRaises == [raises |-> TRUE, results |-> <<>>]
SearchReturns(results) == [raises |-> FALSE, results |-> results]

\* results.get("tracks", {}).get("items", [])
track_items(results) == get(get(results, "tracks", <<>>), "items", <<>>)

\* Mutant of get_spotify_full_track: random.choice is called without the
\* `if tracks` guard, and raises IndexError on an empty list.
get_spotify_full_track_unguarded(emotion, search, pick) ==
    IF search.raises THEN Raise("SpotifyException")
    ELSE LET tracks == track_items(search.results)
         IN IF Len(tracks) = 0 THEN Raise("IndexError")
            ELSE LET track == tracks[pick]
                     embed_url == "https://open.spotify.com/embed/track/"
                                      \o track.id
                 IN IF Len(track.artists) = 0 THEN Raise("IndexError")
                    ELSE Return(<<embed_url, track.name,
                                  track.artists[1].name>>)

\* `pick` is the index random.choice draws.
get_spotify_full_track(emotion, search, pick) ==
    IF search.raises THEN Raise("SpotifyException")
    ELSE LET tracks == track_items(search.results)
         IN IF Len(tracks) > 0
            THEN LET track == tracks[pick]
                     embed_url == "https://open.spotify.com/embed/track/"
                                      \o track.id
                 IN IF Len(track.artists) = 0 THEN Raise("IndexError")
                    ELSE Return(<<embed_url, track.name,
                                  track.artists[1].name>>)
            ELSE Return(<<None, None, None>>)

-----------------------------------------------------------------------------
(* EMOTION_CONFIG, src/app.py lines 87-130.  An emoji is written as its    *)
(* code point; the emoji that ends a message is left out of the message.   *)

EMOTION_CONFIG ==
    [joy |-> [color |-> "#FFE066", emoji |-> "U+1F60A",
              message |-> "Keep shining with joy",
              tip |-> "Share your happiness!"],
     sadness |-> [color |-> "#A9CCE3", emoji |-> "U+1F622",
                  message |-> "Every storm passes",
                  tip |-> "Talk to someone you trust."],
     anger |-> [color |-> "#F1948A", emoji |-> "U+1F620",
                message |-> "Take a deep breath",
                tip |-> "Pause before reacting."],
     fear |-> [color |-> "#C39BD3", emoji |-> "U+1F628",
               message |-> "You are stronger than your fears",
               tip |-> "Face small fears daily."],
     love |-> [color |-> "#F5B7B1", emoji |-> "U+2764",
               message |-> "Keep spreading love",
               tip |-> "Cherish your relationships."],
     surprise |-> [color |-> "#F9E79F", emoji |-> "U+1F62E",
                   message |-> "Life is full of surprises",
                   tip |-> "Embrace change."],
     neutral |-> [color |-> "#D5DBDB", emoji |-> "U+1F642",
                  message |-> "Stay balanced",
                  tip |-> "Maintain good routines."]]

-----------------------------------------------------------------------------
(* The script, src/app.py lines 135-213.  Streamlit runs it from top to    *)
(* bottom on page load and on every interaction; st.session_state is kept  *)
(* between runs.  A run is the record                                      *)
(*   [ss, page, calls, exc, classified]:                                   *)
(* the session state, the elements rendered and the outbound calls made so *)
(* far, the exception that ended the run ("none" while it is running) and  *)
(* the count of classifications.  Markup that never varies (the banner,    *)
(* the input widgets, the rule) is not recorded in the page.  A call is    *)
(* recorded with what it did: for emotion_model whether it raised and how  *)
(* many results it returned, for sp.search the query and the response.     *)

RecentLimit == 5

\* lines 140-141
history_init(ss) ==
    IF "history" \in DOMAIN ss THEN ss ELSE ("history" :> <<>>) @@ ss

\* Mutant of detect_handler: the history keeps its last RecentLimit entries.
detect_handler_evicting(r, clicked, text, model, now) ==
    IF ~clicked THEN r
    ELSE IF strip(text) # <<>>
    THEN LET result == detect_emotion_ai(text, model)
             called == Append(r.calls, [fn |-> "emotion_model",
                                        raised |-> model.raises,
                                        results |-> Len(model.results)])
         IN IF result.exc # "none"
            THEN [r EXCEPT !.calls = called, !.exc = result.exc]
            ELSE LET entry == [time |-> now,
                               emotion |-> result.value.label,
                               score |-> result.value.score]
                     ss1 == ("current_emotion" :> result.value.label) @@ r.ss
                     ss2 == [ss1 EXCEPT !["history"] =
                                 last_n(Append(@, entry), RecentLimit)]
                 IN [r EXCEPT !.calls = called,
                              !.ss = ss2,
                              !.classified = @ + 1,
                              !.page = Append(@, [kind |-> "success"])]
    ELSE [r EXCEPT !.page = Append(@, [kind |-> "warning"])]

\* Mutant of detect_handler: `if user_text:` without strip().
detect_handler_no_strip(r, clicked, text, model, now) ==
    IF ~clicked THEN r
    ELSE IF text # <<>>
    THEN LET result == detect_emotion_ai(text, model)
             called == Append(r.calls, [fn |-> "emotion_model",
                                        raised |-> model.raises,
                                        results |-> Len(model.results)])
         IN IF result.exc # "none"
            THEN [r EXCEPT !.calls = called, !.exc = result.exc]
            ELSE LET entry == [time |-> now,
                               emotion |-> result.value.label,
                               score |-> result.value.score]
                     ss1 == ("current_emotion" :> result.value.label) @@ r.ss
                     ss2 == [ss1 EXCEPT !["history"] = Append(@, entry)]
                 IN [r EXCEPT !.calls = called,
                              !.ss = ss2,
                              !.classified = @ + 1,
                              !.page = Append(@, [kind |-> "success"])]
    ELSE [r EXCEPT !.page = Append(@, [kind |-> "warning"])]

\* Mutant of detect_handler: the current emotion is set by the first
\* detection only.
detect_handler_keeps_first(r, clicked, text, model, now) ==
    IF ~clicked THEN r
    ELSE IF strip(text) # <<>>
    THEN LET result == detect_emotion_ai(text, model)
             called == Append(r.calls, [fn |-> "emotion_model",
                                        raised |-> model.raises,
                                        results |-> Len(model.results)])
         IN IF result.exc # "none"
            THEN [r EXCEPT !.calls = called, !.exc = result.exc]
            ELSE LET entry == [time |-> now,
                               emotion |-> result.value.label,
                               score |-> result.value.score]
                     ss1 == r.ss @@ ("current_emotion" :> result.value.label)
                     ss2 == [ss1 EXCEPT !["history"] = Append(@, entry)]
                 IN [r EXCEPT !.calls = called,
                              !.ss = ss2,
                              !.classified = @ + 1,
                              !.page = Append(@, [kind |-> "success"])]
    ELSE [r EXCEPT !.page = Append(@, [kind |-> "warning"])]

\* lines 157-169; `now` is what datetime.now() returns, in seconds.
detect_handler(r, clicked, text, model, now) ==
    IF ~clicked THEN r
    ELSE IF strip(text) # <<>>
    THEN LET result == detect_emotion_ai(text, model)
             called == Append(r.calls, [fn |-> "emotion_model",
                                        raised |-> model.raises,
                                        results |-> Len(model.results)])
         IN IF result.exc # "none"
            THEN [r EXCEPT !.calls = called, !.exc = result.exc]
            ELSE LET entry == [time |-> now,
                               emotion |-> result.value.label,
                               score |-> result.value.score]
                     ss1 == ("current_emotion" :> result.value.label) @@ r.ss
                     ss2 == [ss1 EXCEPT !["history"] = Append(@, entry)]
                 IN [r EXCEPT !.calls = called,
                              !.ss = ss2,
                              !.classified = @ + 1,
                              !.page = Append(@, [kind |-> "success"])]
    ELSE [r EXCEPT !.page = Append(@, [kind |-> "warning"])]

\* lines 174-201
display_result(r, search, pick) ==
    IF "current_emotion" \notin DOMAIN r.ss THEN r
    ELSE LET emotion == r.ss["current_emotion"]
         IN IF emotion \notin DOMAIN EMOTION_CONFIG
            THEN [r EXCEPT !.exc = "KeyError"]
            ELSE LET cfg == EMOTION_CONFIG[emotion]
                     block == [kind |-> "emotion",
                               color |-> cfg.color,
                               emoji |-> cfg.emoji,
                               title |-> title(emotion),
                               message |-> cfg.message,
                               tip |-> cfg.tip]
                     found == get_spotify_full_track(emotion, search, pick)
                     r1 == [r EXCEPT
                              !.page = Append(@, block),
                              !.calls = Append(@, [fn |-> "sp.search",
                                                   q |-> spotify_query(emotion),
                                                   returned |-> search])]
                 IN IF found.exc # "none"
                    THEN [r1 EXCEPT !.exc = found.exc]
                    ELSE LET embed_url == found.value[1]
                             song == found.value[2]
                             artist == found.value[3]
                         IN IF embed_url # None /\ embed_url # ""
                            THEN [r1 EXCEPT !.page = @ \o
                                    <<[kind |-> "song", song |-> song,
                                       artist |-> artist],
                                      [kind |-> "player", src |-> embed_url]>>]
                            ELSE r1

\* strftime('%H:%M:%S') of a time in seconds: <<hours, minutes, seconds>>.
strftime_hms(t) == <<(t \div 3600) % 24, (t \div 60) % 60, t % 60>>

\* f"{score:.2f}" of a score in hundredths: <<integer part, two decimals>>.
format_2f(score) == <<score \div 100, score % 100>>

\* The line st.write renders for one history entry, lines 210-213.
history_line(entry) ==
    [kind |-> "write",
     time |-> strftime_hms(entry.time),
     emotion |-> title(entry.emotion),
     score |-> format_2f(entry.score)]

\* lines 206-213
emotion_history(r) ==
    LET recent == reversed(last_n(r.ss["history"], RecentLimit))
    IN [r EXCEPT !.page = @ \o <<[kind |-> "subheader"]>> \o
                          [i \in 1..Len(recent) |-> history_line(recent[i])]]

\* Mutant of script: an exception of the detect handler is reported and the
\* run goes on to render the result and the history.
script_goes_on(ss, count, clicked, text, model, now, search, pick) ==
    LET r0 == [ss |-> history_init(ss), page |-> <<>>, calls |-> <<>>,
               exc |-> "none", classified |-> count]
        r1 == detect_handler(r0, clicked, text, model, now)
        r2 == [display_result([r1 EXCEPT !.exc = "none"], search, pick)
                  EXCEPT !.exc = IF r1.exc # "none" THEN r1.exc ELSE @]
        r3 == [emotion_history(r2) EXCEPT !.exc = r2.exc]
    IN IF r3.exc = "none" THEN r3
       ELSE [r3 EXCEPT !.page = Append(@, [kind |-> "exception",
                                           name |-> r3.exc])]

\* One run of the script.  An exception ends the run where it is raised;
\* Streamlit shows it on the page below what was rendered before it.
script(ss, count, clicked, text, model, now, search, pick) ==
    LET r0 == [ss |-> history_init(ss), page |-> <<>>, calls |-> <<>>,
               exc |-> "none", classified |-> count]
        r1 == detect_handler(r0, clicked, text, model, now)
        r2 == IF r1.exc = "none" THEN display_result(r1, search, pick) ELSE r1
        r3 == IF r2.exc = "none" THEN emotion_history(r2) ELSE r2
    IN IF r3.exc = "none" THEN r3
       ELSE [r3 EXCEPT !.page = Append(@, [kind |-> "exception",
                                           name |-> r3.exc])]

\* The run r is bound once (a one-element set) and the state is replaced by
\* what it leaves behind.
ScriptRun(clicked, text, model, now, search, pick) ==
    \E r \in {script(session_state, classified, clicked, text, model, now,
                      search, pick)} :
       /\ session_state' = r.ss
       /\ user_text' = text
       /\ button' = clicked
       /\ page' = r.page
       /\ calls' = r.calls
       /\ exception' = r.exc
       /\ classified' = r.classified
       /\ UNCHANGED normVars

\* The history of the session; the key is absent before the first run.
History == get(session_state, "history", <<>>)

\* The indices random.choice can draw for what the search returns.
Picks(search) ==
    IF ~search.raises /\ Len(track_items(search.results)) > 0
    THEN 1..Len(track_items(search.results))
    ELSE {1}

\* A run without a click: the page load, or an edit of the text area.
Rerun(text, search, pick) ==
    ScriptRun(FALSE, text, ModelRaises, 0, search, pick)

\* A run for a click on "Detect Emotion".
DetectClick(text, model, now, search, pick) ==
    ScriptRun(TRUE, text, model, now, search, pick)

-----------------------------------------------------------------------------
(* Inputs.                                                                 *)

T_empty == <<>>
T_spaces == <<" ","\n","\t"," ">>
T_exam == <<"I"," ","f","a","i","l","e","d"," ","m","y"," ","e","x","a","m">>
T_engaged == <<"I"," ","j","u","s","t"," ","g","o","t"," ","e","n","g","a","g","e","d","!">>
T_gloves == <<"G","L","O","V","E","S">>
T_crush == <<" ","M","y"," ","C","r","u","s","h"," ">>
T_fine == <<" ","o","k"," ">>
T_separators == <<""," ","","","U+00A0","U+2028">>
T_padded == <<"","U+3000","s","a","d","">>
T_sad == <<"s","a","d">>
T_Love == <<"L","o","v","e">>

L_JOY == <<"J","O","Y">>
L_Disgust == <<"D","i","s","g","u","s","t">>
L_other == <<"L","A","B","E","L","_","1">>

Track1 == [id |-> "4uLU6hMCjMI75M1A2tKUQC", name |-> "Song One",
           artists |-> <<[name |-> "Artist A"], [name |-> "Artist B"]>>]
Track2 == [id |-> "7ouMYWpwJ422jRcDASZB7P", name |-> "Song Two",
           artists |-> <<[name |-> "Artist C"]>>]

OneResult(label, score) == ModelReturns(<<[label |-> label, score |-> score]>>)

\* SpecNorm: every text over Alphabet up to MaxTextLen, and the samples.
Alphabet == {"l", "o", "v", "e", "L"}
NormTexts ==
    UNION {[1..n -> Alphabet] : n \in 0..MaxTextLen}
    \cup {T_empty, T_spaces, T_separators, T_padded, T_sad, T_Love, T_exam,
          T_engaged, T_gloves, T_crush, T_fine,
          W_propose, W_married, W_relationship, W_girlfriend, W_boyfriend}
NormLabels ==
    {W_anger, W_disgust, W_fear, W_joy, W_neutral, W_sadness, W_surprise,
     W_love, L_JOY, L_Disgust, L_other, <<>>}
NormScores == {70, 80}
NormModels ==
    {ModelRaises, ModelReturns(<<>>)}
    \cup {OneResult(l, s) : l \in NormLabels, s \in NormScores}

\* Spec: a short session over every category.
SessionTexts == {T_separators, T_sad, T_Love}
SessionModels ==
    {ModelRaises, ModelReturns(<<>>)}
    \cup {OneResult(l, 70) :
            l \in {W_anger, W_disgust, W_fear, W_joy, W_neutral, W_sadness,
                   W_surprise, L_JOY, L_other}}
SessionTimes == {43200}
SessionSearches ==
    {SearchRaises,
     SearchReturns(<<>>),
     SearchReturns([tracks |-> <<>>]),
     SearchReturns([tracks |-> [items |-> <<>>]]),
     SearchReturns([tracks |-> [items |-> <<Track1>>]]),
     SearchReturns([tracks |-> [items |-> <<Track1, Track2>>]])}

\* SpecLong: a long session whose entries differ in their time.
LongTexts == {T_empty, T_sad}
LongModels == {ModelRaises, OneResult(W_sadness, 70)}
LongTimes == {43200, 86399}
LongSearches ==
    {SearchRaises,
     SearchReturns([tracks |-> [items |-> <<>>]]),
     SearchReturns([tracks |-> [items |-> <<Track1>>]])}

-----------------------------------------------------------------------------
(* Specifications.                                                         *)

Pending == [exc |-> "pending", value |-> "no value"]

SessionInit ==
    /\ session_state = <<>>
    /\ user_text = <<>>
    /\ button = FALSE
    /\ page = <<>>
    /\ calls = <<>>
    /\ exception = "none"
    /\ classified = 0

Init ==
    /\ SessionInit
    /\ arg_text = <<>>
    /\ arg_model = ModelRaises
    /\ ret = Pending

Next ==
    \/ \E text \in SessionTexts, search \in SessionSearches :
         \E pick \in Picks(search) : Rerun(text, search, pick)
    \/ /\ Len(History) < MaxHistory
       /\ \E text \in SessionTexts, model \in SessionModels,
             now \in SessionTimes, search \in SessionSearches :
            \E pick \in Picks(search) :
               DetectClick(text, model, now, search, pick)

Spec == Init /\ [][Next]_vars

NextLong ==
    \/ \E text \in LongTexts, search \in LongSearches :
         \E pick \in Picks(search) : Rerun(text, search, pick)
    \/ /\ Len(History) < MaxLongHistory
       /\ \E text \in LongTexts, model \in LongModels,
             now \in LongTimes, search \in LongSearches :
            \E pick \in Picks(search) :
               DetectClick(text, model, now, search, pick)

SpecLong == Init /\ [][NextLong]_vars

\* detect_emotion_ai as a function of its inputs.
InitNorm ==
    /\ SessionInit
    /\ arg_text \in NormTexts
    /\ arg_model \in NormModels
    /\ ret = Pending

Call ==
    /\ ret.exc = "pending"
    /\ ret' = detect_emotion_ai(arg_text, arg_model)
    /\ UNCHANGED <<arg_text, arg_model>>
    /\ UNCHANGED sessionVars

NextNorm == Call

SpecNorm == InitNorm /\ [][NextNorm]_vars

-----------------------------------------------------------------------------
(* Properties of detect_emotion_ai (SpecNorm).                             *)

LoveTriggers == {W_love, W_propose, W_married, W_engaged, W_relationship,
                 W_crush, W_girlfriend, W_boyfriend}

\* Some trigger word occurs in the text at some offset, letter case aside.
HasLoveTrigger(text) ==
    \E w \in LoveTriggers :
        \E k \in 0..(Len(text) - Len(w)) :
            \A j \in 1..Len(w) : lower_char(text[k + j]) = w[j]

\* The classifier returned a result for the call.
ModelAnswered == ~arg_model.raises /\ Len(arg_model.results) > 0

Returned == ret.exc # "pending"

\* The category the claim's label table gives for a lower-cased raw label.
TableCategory(l) ==
    CASE l = W_anger -> "anger"
      [] l = W_disgust -> "anger"
      [] l = W_fear -> "fear"
      [] l = W_joy -> "joy"
      [] l = W_neutral -> "neutral"
      [] l = W_sadness -> "sadness"
      [] l = W_surprise -> "surprise"
      [] OTHER -> "neutral"

\* C1: whenever the lower-cased text contains a love-trigger word as a
\* substring and the classifier returned a result, whatever its label and
\* score, detect_emotion_ai returns category love with score 0.95.
C1_LoveOverride ==
    (Returned /\ ModelAnswered /\ HasLoveTrigger(arg_text)) =>
        /\ ret.exc = "none"
        /\ ret.value = [label |-> "love", score |-> 95]

\* C1 witness: "I just got engaged!" with the classifier answering joy at
\* 0.80 has been normalised to love at 0.95.
C1_Witness ==
    /\ Returned
    /\ arg_text = T_engaged
    /\ arg_model = OneResult(W_joy, 80)
    /\ ret.exc = "none"
    /\ ret.value = [label |-> "love", score |-> 95]

\* C2: whenever the text contains no love-trigger word and the classifier
\* returned a result, detect_emotion_ai returns the table's category for the
\* lower-cased raw label (anger and disgust give anger, the other five give
\* themselves, every other label gives neutral) and the classifier's score.
C2_TableMapping ==
    (Returned /\ ModelAnswered /\ ~HasLoveTrigger(arg_text)) =>
        /\ ret.exc = "none"
        /\ ret.value.label =
              TableCategory(lower(arg_model.results[1].label))
        /\ ret.value.score = arg_model.results[1].score

\* C2 witness: "I failed my exam" with the classifier answering Disgust at
\* 0.70 has been normalised to anger at 0.70.
C2_Witness ==
    /\ Returned
    /\ arg_text = T_exam
    /\ arg_model = OneResult(L_Disgust, 70)
    /\ ret.exc = "none"
    /\ ret.value = [label |-> "anger", score |-> 70]

-----------------------------------------------------------------------------
(* Properties of the session (Spec, SpecLong).                             *)

Categories ==
    {"joy", "sadness", "anger", "fear", "love", "surprise", "neutral"}

Unset == "unset"

\* The current emotion, or Unset while the key is absent.
Current == get(session_state, "current_emotion", Unset)

OnPage(kind) == \E i \in 1..Len(page) : page[i].kind = kind

Called(fn) == \E i \in 1..Len(calls) : calls[i].fn = fn

Elements(kind) == SelectSeq(page, LAMBDA e : e.kind = kind)

\* The last run was a click on Detect with blank or whitespace-only text.
BlankClick == button /\ \A i \in 1..Len(user_text) : user_text[i] \in Whitespace

\* In the last run the classifier raised or returned no result.
ClassifierFailed ==
    \E i \in 1..Len(calls) :
        /\ calls[i].fn = "emotion_model"
        /\ (calls[i].raised \/ calls[i].results = 0)

\* In the last run the catalog search raised.
SearchFailed ==
    \E i \in 1..Len(calls) :
        calls[i].fn = "sp.search" /\ calls[i].returned.raises

\* The track lists the catalog searches of the last run returned.
SearchedTracks ==
    {get(get(calls[i].returned.results, "tracks", <<>>), "items", <<>>) :
        i \in {j \in 1..Len(calls) :
                 calls[j].fn = "sp.search" /\ ~calls[j].returned.raises}}

\* C3: the current category, when set, and the category of every history
\* entry is one of the seven categories; the presentation lookup never
\* fails on a missing key, and no search uses the default phrase.
C3_ClosedCategories ==
    /\ Current # Unset => Current \in Categories
    /\ \A i \in 1..Len(History) : History[i].emotion \in Categories
    /\ exception # "KeyError"
    /\ \A i \in 1..Len(calls) :
          calls[i].fn = "sp.search" =>
             /\ calls[i].q # "relaxing background music"
             /\ \E c \in Categories : calls[i].q = SPOTIFY_QUERY_MAP[c]

\* C3 witness: after a love detection and a neutral one, the neutral block
\* is on the page and the search used the neutral phrase.
C3_Witness ==
    /\ Len(History) = 2
    /\ History[1].emotion = "love"
    /\ History[2].emotion = "neutral"
    /\ Current = "neutral"
    /\ \E i \in 1..Len(page) :
          page[i].kind = "emotion" /\ page[i].title = "Neutral"
    /\ \E i \in 1..Len(calls) :
          calls[i].fn = "sp.search" /\ calls[i].q = "chill lofi focus music"

\* The lines a run that reached the history section must show for history h:
\* the last min(5, Len(h)) entries, the most recent first.
ExpectedLines(h) ==
    LET k == Len(h)
        n == IF k < 5 THEN k ELSE 5
    IN [i \in 1..n |-> history_line(h[k + 1 - i])]

\* C4: every run that reaches the history section renders exactly the last
\* min(5, k) entries of the k-entry history, most recent first and without
\* padding; a run without a click (a re-render) leaves the history as it is.
C4_RecentFive ==
    /\ [](OnPage("subheader") => Elements("write") = ExpectedLines(History))
    /\ [][~button' => History' = History]_vars

\* C4 witness: with eight entries E1..E8 in the history, a run without a
\* click shows E8, E7, E6, E5, E4, and E8 and E7 differ.
C4_Witness ==
    /\ Len(History) = 8
    /\ ~button
    /\ OnPage("subheader")
    /\ Elements("write") =
          <<history_line(History[8]), history_line(History[7]),
            history_line(History[6]), history_line(History[5]),
            history_line(History[4])>>
    /\ History[8] # History[7]
    /\ History[4] # History[3]

\* C5: the history is append-only.  A step either leaves the history as it
\* is or appends one entry at its end, the latter exactly when a
\* classification succeeded in the step; the history length is the number
\* of successful classifications, also beyond five.
C5_AppendOnly ==
    /\ [](Len(History) = classified)
    /\ [][/\ Len(History') >= Len(History)
          /\ SubSeq(History', 1, Len(History)) = History
          /\ Len(History') = Len(History) + (classified' - classified)
          /\ classified' - classified \in {0, 1}]_vars

\* C5 witness: eight successful classifications, eight entries, the last
\* run being a click on Detect that appended the eighth.
C5_Witness ==
    /\ classified = 8
    /\ Len(History) = 8
    /\ button
    /\ OnPage("success")
    /\ History[1] # History[8]

\* C6 as claimed: a click on Detect with blank text shows the warning and
\* makes no outbound call, in every session state.
C6_BlankNoCalls ==
    BlankClick => (OnPage("warning") /\ calls = <<>>)

\* C6 as amended: a click on Detect with blank text shows the warning,
\* never calls the classifier and reports no success; the catalog search is
\* called, once, exactly when an earlier detection set the current emotion.
C6_BlankNoClassifier ==
    BlankClick =>
        /\ OnPage("warning")
        /\ ~Called("emotion_model")
        /\ ~OnPage("success")
        /\ Current = Unset => calls = <<>>
        /\ Current # Unset =>
              /\ Len(calls) = 1
              /\ calls[1].fn = "sp.search"
              /\ calls[1].q = SPOTIFY_QUERY_MAP[Current]

\* C6 witness: a blank click in a session whose current emotion is set:
\* the warning is shown and the one call made is the catalog search.
C6_Witness ==
    /\ BlankClick
    /\ user_text # <<>>
    /\ Current # Unset
    /\ OnPage("warning")
    /\ Len(calls) = 1
    /\ calls[1].fn = "sp.search"

\* C7 as claimed: when the catalog search raises, the run does not end in
\* an exception, and the presentation block and the history section are
\* rendered.
C7_SearchFailureCaught ==
    SearchFailed =>
        /\ exception = "none"
        /\ ~OnPage("exception")
        /\ OnPage("emotion")
        /\ OnPage("subheader")

\* C8: when the classifier raises or returns no result, the run ends in an
\* exception shown on the page and renders no presentation block (nor
\* success notice), and the step changes neither the history nor the
\* current category, also when an earlier detection set one.
C8_ClassifierFailure ==
    /\ [](ClassifierFailed =>
            /\ exception # "none"
            /\ OnPage("exception")
            /\ ~OnPage("emotion")
            /\ ~OnPage("success")
            /\ ~Called("sp.search"))
    /\ [][ClassifierFailed' =>
            /\ History' = History
            /\ get(session_state', "current_emotion", Unset) = Current
            /\ classified' = classified]_vars

\* C8 witness: the classifier failed in a session with one earlier
\* detection; the page shows the exception and nothing else.
C8_Witness ==
    /\ ClassifierFailed
    /\ Len(History) = 1
    /\ Current = History[1].emotion
    /\ exception = "IndexError"
    /\ page = <<[kind |-> "exception", name |-> "IndexError"]>>

\* C9: when the search returns no track (an empty list, or a response
\* without tracks or items), get_spotify_full_track returns
\* (None, None, None), the run raises nothing and the page shows the
\* current category's block without a music section; when it returns
\* tracks, the song shown is one of them and the player's locator is built
\* from that track's id.
C9_NoTrackNoMusic ==
    \A tracks \in SearchedTracks :
        /\ exception = "none"
        /\ \E i \in 1..Len(page) :
              /\ page[i].kind = "emotion"
              /\ page[i].color = EMOTION_CONFIG[Current].color
              /\ page[i].message = EMOTION_CONFIG[Current].message
        /\ Len(tracks) = 0 =>
              /\ ~OnPage("song")
              /\ ~OnPage("player")
              /\ \A c \in Categories :
                    get_spotify_full_track(
                        c, SearchReturns([tracks |-> [items |-> tracks]]), 1)
                    = Return(<<None, None, None>>)
        /\ Len(tracks) > 0 =>
              \E t \in 1..Len(tracks) :
                 /\ Elements("song") =
                       <<[kind |-> "song", song |-> tracks[t].name,
                          artist |-> tracks[t].artists[1].name]>>
                 /\ Elements("player") =
                       <<[kind |-> "player",
                          src |-> "https://open.spotify.com/embed/track/"
                                     \o tracks[t].id]>>

\* C9 witness: the current category is fear, the search returned an empty
\* list, and the page is the fear block followed by the history section.
C9_Witness ==
    /\ Current = "fear"
    /\ SearchedTracks = {<<>>}
    /\ exception = "none"
    /\ \E i \in 1..Len(page) :
          page[i].kind = "emotion" /\ page[i].title = "Fear"
    /\ ~OnPage("song")
    /\ OnPage("subheader")

\* C10: after every run the current emotion is set exactly when the history
\* is not empty, it is then the emotion of the last entry, and a
\* presentation block on the page is the block of that emotion.
C10_CurrentIsLatest ==
    /\ Current # Unset <=> Len(History) > 0
    /\ Len(History) > 0 => Current = History[Len(History)].emotion
    /\ \A i \in 1..Len(page) :
          page[i].kind = "emotion" =>
             /\ Len(History) > 0
             /\ page[i].title = title(History[Len(History)].emotion)
             /\ page[i].color =
                   EMOTION_CONFIG[History[Len(History)].emotion].color

\* C10 witness: two detections with different emotions; the block on the
\* page is the second one's.
C10_Witness ==
    /\ Len(History) = 2
    /\ History[1].emotion = "joy"
    /\ History[2].emotion = "sadness"
    /\ Current = "sadness"
    /\ \E i \in 1..Len(page) :
          page[i].kind = "emotion" /\ page[i].title = "Sadness"

====
